---- MODULE Spec2Model ----
(***************************************************************************)
(* Model of the two aggregation scripts of KCET_COMEDK:                    *)
(*   scripts/comedk_aggregator.py  process_comedk_data, the sequential     *)
(*       outer join of the per-sheet tables and                            *)
(*       coalesce_and_clean_merged_columns;                                *)
(*   scripts/kcet_aggregator.py    extract_and_format_data, the row scan   *)
(*       of the sheets that emits the cutoff records, and                  *)
(*       create_dataframe_from_list, which folds them into a table.        *)
(* A run is one script: script = "comedk" or script = "kcet".              *)
(*                                                                         *)
(* Strings the code only compares (column names, seat categories) are TLA+ *)
(* strings.  Strings the code takes apart (cell texts, institution names,  *)
(* course codes) are sequences of one-character strings.  A column name of *)
(* a joined table is a sequence <<label, s1, ..., sn>>: the label followed *)
(* by the join suffixes "_x" / "_y" pandas appended, written "x" / "y".    *)
(* A missing cell (NaN / pd.NA) of a wide table is the value NA.           *)
(***************************************************************************)
EXTENDS Integers, Sequences, FiniteSets, TLC

VARIABLES
  script,              \* which script runs: "comedk" or "kcet"
  pc,                  \* position of the run: "sheets", "rows", "done"
  sheets_read,         \* comedk: the names of the sheets read so far, in order
  all_processed_data,  \* comedk: the aligned per-sheet tables appended so far
  merged_final_df,     \* comedk: the return value of process_comedk_data
  df,                  \* kcet: the rows of the sheet being scanned
  i,                   \* kcet: the row index of the scan loop (as in the code, from 0)
  college_code,        \* kcet: code of the current section, <<>> for None
  college_name,        \* kcet: name of the current section, <<>> for None
  gm_index,            \* kcet: cutoff column index of the section, -1 unresolved
  data,                \* kcet: the records appended so far
  read_from,           \* kcet, history: for each record of data, the index (from 0)
                       \* of the row it was read from and the cutoff column index
                       \* its value was read at
  excel_data,          \* kcet: the sheets of the workbook after the one being scanned
  all_data,            \* kcet: the records of the sheets scanned to their end
  final_df             \* kcet: the table create_dataframe_from_list returned

vars == <<script, pc, sheets_read, all_processed_data, merged_final_df,
          df, i, college_code, college_name, gm_index, data, read_from,
          excel_data, all_data, final_df>>

comedk_vars == <<sheets_read, all_processed_data, merged_final_df>>
kcet_vars == <<df, i, college_code, college_name, gm_index, data, read_from,
               excel_data, all_data, final_df>>

(***************************************************************************)
(* Bounds of the model.                                                    *)
(***************************************************************************)
\* the largest number of sheets of one COMEDK workbook
MaxSheets == 4
\* the largest number of rows of one KCET sheet
MaxRows == 4

Range(s) == {s[k] : k \in DOMAIN s}

IsUnique(s) == \A a, b \in DOMAIN s : s[a] = s[b] => a = b

RECURSIVE Flatten(_)
Flatten(ss) == IF ss = <<>> THEN <<>> ELSE Head(ss) \o Flatten(Tail(ss))

(***************************************************************************)
(*                      scripts/comedk_aggregator.py                       *)
(***************************************************************************)

\* a missing value of a wide table (NaN); the cutoff values are 1, 2, 3
NA == 0

base_columns == <<"College Code", "College Name", "Seat Category">>

\* the interested branch columns, in the order of the branch-codes file;
\* "X" is a branch column of the sheets that is not interested
all_potential_interested_branch_columns == <<"P", "Q">>

\* a row of a raw sheet: college code and name (numbered, so that the join
\* can sort them), seat category, and the cells of the branch columns
SheetRow(code, name, seat, p, q, x) ==
  [code |-> code, name |-> name, seat |-> seat,
   cells |-> [c \in {"P", "Q", "X"} |->
                IF c = "P" THEN p ELSE IF c = "Q" THEN q ELSE x]]

\* The sheets a workbook is made of (xl.sheet_names / pd.read_excel): a sheet
\* has its columns in sheet order and its rows.
xl ==
  <<
    \* 1-4: one institution, column P with the values 1, 2, 3 and NaN
    [columns |-> <<"College Code", "College Name", "Seat Category", "P">>,
     rows |-> <<SheetRow(1, 1, "GM", 1, NA, NA)>>],
    [columns |-> <<"College Code", "College Name", "Seat Category", "P">>,
     rows |-> <<SheetRow(1, 1, "GM", 2, NA, NA)>>],
    [columns |-> <<"College Code", "College Name", "Seat Category", "Q", "P">>,
     rows |-> <<SheetRow(2, 1, "GM", NA, 2, NA), SheetRow(1, 1, "GM", 3, 1, NA)>>],
    [columns |-> <<"College Code", "College Name", "Seat Category", "P">>,
     rows |-> <<SheetRow(1, 1, "GM", NA, NA, NA)>>],
    \* 5: no column P, 'Seat Type' header, a row of another seat category
    [columns |-> <<"College Code", "College Name", "Seat Type", "X", "Q">>,
     rows |-> <<SheetRow(1, 1, "GM", NA, 2, 1), SheetRow(2, 1, "SC", NA, 1, 1)>>],
    \* 6: the same college code under another name, 'Seat type' header
    [columns |-> <<"College Code", "College Name", "Seat type", "P">>,
     rows |-> <<SheetRow(1, 2, "GM", 2, NA, NA)>>],
    \* 7: two rows of the same institution
    [columns |-> <<"College Code", "College Name", "Seat Category", "P">>,
     rows |-> <<SheetRow(1, 1, "GM", 1, NA, NA), SheetRow(1, 1, "GM", 2, NA, NA)>>],
    \* 8: no 'College Name' column
    [columns |-> <<"College Code", "Seat Category", "P">>,
     rows |-> <<SheetRow(1, 1, "GM", 3, NA, NA)>>],
    \* 9: no seat column at all
    [columns |-> <<"College Code", "College Name", "P", "Q">>,
     rows |-> <<SheetRow(1, 1, "GM", 3, 3, NA)>>]
  >>

\* lines 172-177: 'Seat Type' / 'Seat type' is renamed to 'Seat Category'
RenameSeatColumn(columns) ==
  IF "Seat Type" \in Range(columns)
  THEN [k \in DOMAIN columns |->
          IF columns[k] = "Seat Type" THEN "Seat Category" ELSE columns[k]]
  ELSE IF "Seat type" \in Range(columns)
  THEN [k \in DOMAIN columns |->
          IF columns[k] = "Seat type" THEN "Seat Category" ELSE columns[k]]
  ELSE columns

\* line 183: all(col in df_sheet.columns for col in base_columns)
HasBaseColumns(df_sheet) ==
  \A b \in Range(base_columns) : b \in Range(RenameSeatColumn(df_sheet.columns))

\* lines 190-206: the rows of seat category 'GM', with the base columns and
\* the interested branch columns the sheet has, in the order of the
\* interested list
AlignSheet(df_sheet) ==
  LET columns == RenameSeatColumn(df_sheet.columns)
      df_gm == SelectSeq(df_sheet.rows, LAMBDA r : r.seat = "GM")
      keep == SelectSeq(all_potential_interested_branch_columns,
                        LAMBDA c : c \in Range(columns))
  IN [columns |-> [k \in DOMAIN keep |-> <<keep[k]>>],
      rows |-> [k \in DOMAIN df_gm |->
                  [code |-> df_gm[k].code, name |-> df_gm[k].name,
                   seat |-> df_gm[k].seat,
                   cells |-> [c \in {<<l>> : l \in Range(keep)} |->
                                df_gm[k].cells[c[1]]]]]]

\* the value of a run that returns no table (None)
None == [ok |-> FALSE, columns |-> <<>>, rows |-> <<>>]

Table(columns, rows) == [ok |-> TRUE, columns |-> columns, rows |-> rows]

\* the join key of a row: on=base_columns
KeyOf(r) == <<r.code, r.name, r.seat>>

\* lexicographic order of the join keys (the seat category of every aligned
\* row is 'GM', so code and name decide)
KeyLess(a, b) == a[1] < b[1] \/ (a[1] = b[1] /\ a[2] < b[2])

RECURSIVE SortKeys(_)
SortKeys(S) ==
  IF S = {} THEN <<>>
  ELSE LET m == CHOOSE a \in S : \A b \in S \ {a} : KeyLess(a, b)
       IN <<m>> \o SortKeys(S \ {m})

\* pd.merge(left, right, on=base_columns, how='outer'): a column name both
\* sides have gets the suffix _x on the left and _y on the right; a suffix
\* that makes two columns of one side equal raises MergeError (pandas >= 2.0;
\* older versions build the duplicate columns, on which the coalescing
\* assignment raises ValueError: either way the run ends in line 247).  The
\* rows are the union of the keys, sorted; rows of one key are paired.
pd_merge(left, right) ==
  LET overlap == Range(left.columns) \cap Range(right.columns)
      llabels == [k \in DOMAIN left.columns |->
                    IF left.columns[k] \in overlap
                    THEN Append(left.columns[k], "x") ELSE left.columns[k]]
      rlabels == [k \in DOMAIN right.columns |->
                    IF right.columns[k] \in overlap
                    THEN Append(right.columns[k], "y") ELSE right.columns[k]]
      columns == llabels \o rlabels
      lnull == [c \in Range(left.columns) |-> NA]
      rnull == [c \in Range(right.columns) |-> NA]
      joined(key, lcells, rcells) ==
        [code |-> key[1], name |-> key[2], seat |-> key[3],
         cells |-> [c \in Range(columns) |->
                      IF \E k \in DOMAIN llabels : llabels[k] = c
                      THEN lcells[left.columns[CHOOSE k \in DOMAIN llabels : llabels[k] = c]]
                      ELSE rcells[right.columns[CHOOSE k \in DOMAIN rlabels : rlabels[k] = c]]]]
      group(key) ==
        LET ls == SelectSeq(left.rows, LAMBDA r : KeyOf(r) = key)
            rs == SelectSeq(right.rows, LAMBDA r : KeyOf(r) = key)
        IN IF ls = <<>> THEN [k \in DOMAIN rs |-> joined(key, lnull, rs[k].cells)]
           ELSE IF rs = <<>> THEN [k \in DOMAIN ls |-> joined(key, ls[k].cells, rnull)]
           ELSE [n \in 1..(Len(ls) * Len(rs)) |->
                   joined(key, ls[((n - 1) \div Len(rs)) + 1].cells,
                               rs[((n - 1) % Len(rs)) + 1].cells)]
      order == SortKeys({KeyOf(r) : r \in Range(left.rows) \cup Range(right.rows)})
  IN IF ~left.ok \/ ~IsUnique(llabels) \/ ~IsUnique(rlabels) THEN None
     ELSE Table(columns, Flatten([k \in DOMAIN order |-> group(order[k])]))

\* Series.fillna: the value of y where it has one, else the value of x
fillna(y, x) == IF y # NA THEN y ELSE x

\* lines 20-26: the base names of the columns ending in _x that have a _y
\* partner, in column order
columns_to_process(frame) ==
  LET xs == SelectSeq(frame.columns,
              LAMBDA c : Len(c) > 1 /\ c[Len(c)] = "x"
                         /\ Append(SubSeq(c, 1, Len(c) - 1), "y") \in Range(frame.columns))
  IN [k \in DOMAIN xs |-> SubSeq(xs[k], 1, Len(xs[k]) - 1)]

\* lines 34-38: df[base_name] = df[y_col].fillna(df[x_col]) for each pair: an
\* existing column base_name is overwritten in place, a new one is appended
RECURSIVE CoalesceLoop(_, _)
CoalesceLoop(frame, bases) ==
  IF bases = <<>> THEN frame
  ELSE LET b == Head(bases)
           columns == IF b \in Range(frame.columns) THEN frame.columns
                      ELSE Append(frame.columns, b)
           rows == [k \in DOMAIN frame.rows |->
                      [frame.rows[k] EXCEPT !.cells =
                         [c \in Range(columns) |->
                            IF c = b
                            THEN fillna(frame.rows[k].cells[Append(b, "y")],
                                        frame.rows[k].cells[Append(b, "x")])
                            ELSE frame.rows[k].cells[c]]]]
       IN CoalesceLoop(Table(columns, rows), Tail(bases))

\* a variant of coalesce_and_clean_merged_columns that fills the coalesced
\* columns and leaves the suffixed columns in the table
coalesce_without_drop(frame) == CoalesceLoop(frame, columns_to_process(frame))

\* lines 7-42
coalesce_and_clean_merged_columns(frame) ==
  LET bases == columns_to_process(frame)
      cols_to_drop == {Append(b, "x") : b \in Range(bases)}
                        \cup {Append(b, "y") : b \in Range(bases)}
      filled == CoalesceLoop(frame, bases)
      columns == SelectSeq(filled.columns, LAMBDA c : c \notin cols_to_drop)
  IN IF bases = <<>> THEN frame
     ELSE Table(columns,
                [k \in DOMAIN filled.rows |->
                   [filled.rows[k] EXCEPT !.cells =
                      [c \in Range(columns) |-> filled.rows[k].cells[c]]]])

\* lines 215-228: merged_final_df after the sequential outer joins
RECURSIVE MergeLoop(_, _)
MergeLoop(merged, rest) ==
  IF rest = <<>> THEN merged
  ELSE MergeLoop(pd_merge(merged, Head(rest)), Tail(rest))

\* lines 209-249: the return value for the tables appended.  The final
\* column order (lines 232-237) puts the base columns first and keeps the
\* order of the other columns; the base columns are the fields code, name
\* and seat of a row here, so the order of columns is kept as it is.
MergeResult(tables) ==
  IF tables = <<>> THEN None
  ELSE LET merged == MergeLoop(Head(tables), Tail(tables))
       IN IF ~merged.ok THEN None
          ELSE coalesce_and_clean_merged_columns(merged)

InitComedk ==
  /\ script = "comedk"
  /\ pc = "sheets"
  /\ sheets_read = <<>>
  /\ all_processed_data = <<>>
  /\ merged_final_df = None
  /\ df = <<>>
  /\ i = 0
  /\ college_code = <<>>
  /\ college_name = <<>>
  /\ gm_index = -1
  /\ data = <<>>
  /\ read_from = <<>>
  /\ excel_data = <<>>
  /\ all_data = <<>>
  /\ final_df = [columns |-> <<>>, rows |-> <<>>]

\* lines 169-207: one iteration of the loop over the sheets of the workbook
ReadSheet ==
  /\ script = "comedk"
  /\ pc = "sheets"
  /\ Len(sheets_read) < MaxSheets
  /\ \E sheet_name \in DOMAIN xl :
       /\ sheets_read' = Append(sheets_read, sheet_name)
       /\ all_processed_data' =
            IF HasBaseColumns(xl[sheet_name])
            THEN Append(all_processed_data, Table(AlignSheet(xl[sheet_name]).columns,
                                                  AlignSheet(xl[sheet_name]).rows))
            ELSE all_processed_data
  /\ UNCHANGED <<script, pc, merged_final_df, kcet_vars>>

\* lines 209-249: after the last sheet
process_comedk_data ==
  /\ script = "comedk"
  /\ pc = "sheets"
  /\ Len(sheets_read) >= 1
  /\ merged_final_df' = MergeResult(all_processed_data)
  /\ pc' = "done"
  /\ UNCHANGED <<script, sheets_read, all_processed_data, kcet_vars>>

NextComedk == ReadSheet \/ process_comedk_data

SpecComedk == InitComedk /\ [][NextComedk]_vars

(***************************************************************************)
(*                       scripts/kcet_aggregator.py                        *)
(***************************************************************************)

\* ---- Python string operations, on sequences of characters ----

Lowercase == <<"a", "b", "c", "d", "e", "f", "g", "h", "i", "j", "k", "l", "m",
               "n", "o", "p", "q", "r", "s", "t", "u", "v", "w", "x", "y", "z">>
Uppercase == <<"A", "B", "C", "D", "E", "F", "G", "H", "I", "J", "K", "L", "M",
               "N", "O", "P", "Q", "R", "S", "T", "U", "V", "W", "X", "Y", "Z">>
Digits == <<"0", "1", "2", "3", "4", "5", "6", "7", "8", "9">>

IndexIn(alphabet, c) == CHOOSE k \in DOMAIN alphabet : alphabet[k] = c

\* str.upper() and str.lower()
upper(s) == [k \in DOMAIN s |->
               IF s[k] \in Range(Lowercase) THEN Uppercase[IndexIn(Lowercase, s[k])]
               ELSE s[k]]
lower(s) == [k \in DOMAIN s |->
               IF s[k] \in Range(Uppercase) THEN Lowercase[IndexIn(Uppercase, s[k])]
               ELSE s[k]]

\* t in s
Contains(s, t) == \E k \in 0..(Len(s) - Len(t)) : SubSeq(s, k + 1, k + Len(t)) = t

\* s.startswith(p)
startswith(s, p) == Len(p) <= Len(s) /\ SubSeq(s, 1, Len(p)) = p

IsSpace(c) == c = " "
IsDigit(c) == c \in Range(Digits)

\* str.strip()
RECURSIVE lstrip(_)
lstrip(s) == IF s # <<>> /\ IsSpace(Head(s)) THEN lstrip(Tail(s)) ELSE s
RECURSIVE rstrip(_)
rstrip(s) == IF s # <<>> /\ IsSpace(s[Len(s)]) THEN rstrip(SubSeq(s, 1, Len(s) - 1)) ELSE s
strip(s) == rstrip(lstrip(s))

\* ---- cells and floats ----

\* a cell of a sheet as pandas reads it: a string, a number or empty (NaN)
Str(s) == [t |-> "str", s |-> s, n |-> 0]
Num(n) == [t |-> "num", s |-> <<>>, n |-> n]
Empty == [t |-> "nan", s |-> <<>>, n |-> 0]

\* a Python float: finite n, +/- infinity, NaN; ValueError is float() raising
Finite(n) == [k |-> "fin", n |-> n]
Infinity(sign) == [k |-> "inf", n |-> sign]
NaN == [k |-> "nan", n |-> 0]
ValueError == [k |-> "err", n |-> 0]

RECURSIVE DigitsValue(_)
DigitsValue(s) ==
  IF s = <<>> THEN 0
  ELSE 10 * DigitsValue(SubSeq(s, 1, Len(s) - 1)) + (IndexIn(Digits, s[Len(s)]) - 1)

\* float(text) for a string: surrounding whitespace and a sign are allowed;
\* "inf", "infinity" and "nan" are accepted in any letter case; anything else
\* that is not a number raises ValueError.  (Numerals are digit strings here:
\* the sheets of the model hold no fractions or exponents.)
float_of_str(text) ==
  LET stripped == strip(text)
      signed == stripped # <<>> /\ Head(stripped) \in {"+", "-"}
      sign == IF signed /\ Head(stripped) = "-" THEN -1 ELSE 1
      body == IF signed THEN Tail(stripped) ELSE stripped
  IN IF body # <<>> /\ \A k \in DOMAIN body : IsDigit(body[k])
     THEN Finite(sign * DigitsValue(body))
     ELSE IF lower(body) \in {<<"i", "n", "f">>,
                              <<"i", "n", "f", "i", "n", "i", "t", "y">>}
     THEN Infinity(sign)
     ELSE IF lower(body) = <<"n", "a", "n">> THEN NaN
     ELSE ValueError

\* float(gm_value) of a cell
float(cell) ==
  IF cell.t = "num" THEN Finite(cell.n)
  ELSE IF cell.t = "nan" THEN NaN
  ELSE float_of_str(cell.s)

\* math.isnan
isnan(f) == f.k = "nan"

\* seq[j] of a Python list: a negative index counts from the end
PyIndex(seq, j) == IF j < 0 THEN seq[Len(seq) + j + 1] ELSE seq[j + 1]

\* ---- the course catalog ----

\* the rows of the course-code file (COURSE CODE, COURSE DETAIL, INTERESTED)
course_file ==
  << [CODE |-> <<"M">>, DETAIL |-> <<"m">>, INTERESTED |-> "N"],
     [CODE |-> <<"A">>, DETAIL |-> <<"a">>, INTERESTED |-> "Y"],
     [CODE |-> <<"A", " ", "B">>, DETAIL |-> <<"b">>, INTERESTED |-> "Y"],
     [CODE |-> <<"C">>, DETAIL |-> <<"c">>, INTERESTED |-> "Y"] >>

\* lines 37-42: the rows with INTERESTED == 'Y', in file order
process_excel_data == SelectSeq(course_file, LAMBDA c : c.INTERESTED = "Y")

course_data == process_excel_data

\* ---- the rows of a sheet ----

RowPool ==
  { \* institution header rows: an accepted name, a name with an allow and a
    \* deny token, a name with no allow token
    <<Str(<<"E", "1", " ", "B", "a", "n">>), Empty, Empty>>,
    <<Str(<<"E", "2", " ", "B", "a", "n", "t", "w", "a", "l">>), Empty, Empty>>,
    <<Str(<<"E", "3", " ", "M", "y", "s">>), Empty, Empty>>,
    \* column header rows, "GM" at index 1 and at index 2
    <<Empty, Str(<<"G", "M">>), Empty>>,
    <<Empty, Empty, Str(<<"G", "M">>)>>,
    \* program rows
    <<Str(<<"A", " ", "B", " ", "x">>), Num(5), Num(7)>>,
    <<Str(<<" ", "A", " ", "z">>), Str(<<"i", "n", "f">>), Str(<<"x">>)>>,
    <<Str(<<"M", " ", "q">>), Num(5), Num(7)>>,
    <<Str(<<"A", " ", "y">>), Empty, Str(<<"1", "2">>)>> }

\* institution names for the inclusion policy: with and without an allow
\* token, with each deny token, in upper, lower and mixed case
NamePool ==
  { <<"B", "a", "n">>,
    <<"B", "E", "N">>,
    <<"M", "y", "s">>,
    <<"B", "a", "n", "t", "w", "a", "l">>,
    <<"b", "a", "n", "g", "a", "r", "a", "p", "e", "t">>,
    <<"B", "e", "n", " ", "K", "a", "l", "b", "u", "r", "g", "i">>,
    <<"B", "A", "N", " ", "M", "A", "N", "G", "A", "L", "O", "R", "E">>,
    <<"R", "a", "n", "e", "b", "e", "n", "n", "u", "r">>,
    <<"M", "A", "N", "G", "A", "L", "O", "R", "E">>,
    <<"K", "a", "l", "b", "u", "r", "g", "i">> }

\* the header row of an institution
HeaderRow(code_digit, name) ==
  <<Str(<<"E", code_digit, " ">> \o name), Empty, Empty>>

\* the sheets of two sections, each a header row, a column header row and a
\* program row
TwoSectionSheets ==
  { << HeaderRow("1", n1),
       <<Empty, Str(<<"G", "M">>), Empty>>,
       <<Str(<<"A", " ", "B", " ", "x">>), Num(5), Num(7)>>,
       HeaderRow(code2, n2),
       <<Empty, Empty, Str(<<"G", "M">>)>>,
       <<Str(<<"A", " ", "y">>), Empty, Str(<<"1", "2">>)>> >> :
    n1 \in NamePool, n2 \in NamePool, code2 \in {"1", "2"} }

\* program rows of the courses A and C
ProgramRows ==
  { <<Str(<<"A", " ", "y">>), Num(5), Num(7)>>,
    <<Str(<<"C", " ", "y">>), Num(6), Empty>>,
    <<Str(<<"C", " ", "z">>), Num(8), Num(9)>> }

\* the sheets of two accepted sections with one program row each, of the
\* same course or of different ones, under the same code or different ones
TwoProgramSheets ==
  { << HeaderRow("1", <<"B", "a", "n">>),
       <<Empty, Str(<<"G", "M">>), Empty>>,
       p1,
       HeaderRow(code2, <<"B", "E", "N">>),
       <<Empty, Str(<<"G", "M">>), Empty>>,
       p2 >> :
    p1 \in ProgramRows, p2 \in ProgramRows, code2 \in {"1", "2"} }

\* the sheets in which the row after a program row position is a row whose
\* first cell starts with a course code and holds an institution code
LookaheadSheets ==
  { << HeaderRow("1", <<"B", "a", "n">>),
       <<Empty, Str(<<"G", "M">>), Empty>>,
       <<Str(<<"A", " ", "E", "2", " ", "B", "E", "N">>), Num(5), Num(7)>>,
       r >> :
    r \in RowPool }

\* the sheets of the workbooks of two sheets
WorkbookSheets ==
  { << HeaderRow("1", <<"B", "a", "n">>),
       <<Empty, Str(<<"G", "M">>), Empty>>,
       <<Str(<<"A", " ", "y">>), Num(5), Num(7)>> >>,
    << <<Empty, Empty, Str(<<"G", "M">>)>>,
       <<Str(<<"A", " ", "B", " ", "x">>), Num(5), Num(7)>>,
       <<Str(<<"A", " ", "y">>), Empty, Str(<<"1", "2">>)>> >>,
    << HeaderRow("1", <<"B", "E", "N">>),
       <<Empty, Empty, Str(<<"G", "M">>)>>,
       <<Str(<<"A", " ", "y">>), Empty, Str(<<"1", "2">>)>> >>,
    << HeaderRow("2", <<"B", "a", "n">>),
       <<Empty, Str(<<"G", "M">>), Empty>>,
       <<Str(<<"C", " ", "y">>), Num(6), Empty>> >> }

\* the sheets of n rows
RECURSIVE SheetsOfLength(_)
SheetsOfLength(n) ==
  IF n = 0 THEN {<<>>}
  ELSE {Append(s, r) : s \in SheetsOfLength(n - 1), r \in RowPool}

\* line 127: the workbooks read (pd.read_excel(..., sheet_name=None)), each
\* the sequence of its sheets
Workbooks ==
  {<<s>> : s \in UNION {SheetsOfLength(n) : n \in 1..MaxRows}}
    \cup {<<s>> : s \in TwoSectionSheets \cup TwoProgramSheets \cup LookaheadSheets}
    \cup {<<s1, s2>> : s1 \in WorkbookSheets, s2 \in WorkbookSheets}

\* ---- extract_and_format_data ----

\* line 146: re.search(r".*?(E\d+)\s+(.*)", text) matches at position k
HeaderAt(text, k) ==
  /\ text[k] = "E"
  /\ \E d \in 1..(Len(text) - k - 1) :
       /\ \A m \in (k + 1)..(k + d) : IsDigit(text[m])
       /\ IsSpace(text[k + d + 1])

HeaderMatch(text) == \E k \in DOMAIN text : HeaderAt(text, k)

HeaderStart(text) ==
  CHOOSE k \in DOMAIN text : HeaderAt(text, k) /\ \A m \in 1..(k - 1) : ~HeaderAt(text, m)

HeaderDigits(text) ==
  CHOOSE d \in 1..Len(text) :
    /\ \A m \in (HeaderStart(text) + 1)..(HeaderStart(text) + d) : IsDigit(text[m])
    /\ IsSpace(text[HeaderStart(text) + d + 1])

\* match.group(1)
HeaderCode(text) ==
  SubSeq(text, HeaderStart(text), HeaderStart(text) + HeaderDigits(text))

\* match.group(2): what follows the whitespace after the code
HeaderName(text) ==
  lstrip(SubSeq(text, HeaderStart(text) + HeaderDigits(text) + 1, Len(text)))

\* a variant of SkipCollege that tests one deny token without upper()
SkipCollegeCaseSensitive(name) ==
  \/ ~Contains(upper(name), <<"B", "A", "N">>) /\ ~Contains(upper(name), <<"B", "E", "N">>)
  \/ Contains(upper(name), <<"K", "A", "L", "B", "U", "R", "G", "I">>)
  \/ Contains(name, <<"B", "A", "N", "T", "W", "A", "L">>)
  \/ Contains(upper(name), <<"B", "A", "N", "G", "A", "R", "A", "P", "E", "T">>)
  \/ Contains(upper(name), <<"M", "A", "N", "G", "A", "L", "O", "R", "E">>)
  \/ Contains(upper(name), <<"R", "A", "N", "E", "B", "E", "N", "N", "U", "R">>)

\* lines 157-175: the row is skipped for this college name
SkipCollege(name) ==
  \/ ~Contains(upper(name), <<"B", "A", "N">>) /\ ~Contains(upper(name), <<"B", "E", "N">>)
  \/ Contains(upper(name), <<"K", "A", "L", "B", "U", "R", "G", "I">>)
  \/ Contains(upper(name), <<"B", "A", "N", "T", "W", "A", "L">>)
  \/ Contains(upper(name), <<"B", "A", "N", "G", "A", "R", "A", "P", "E", "T">>)
  \/ Contains(upper(name), <<"M", "A", "N", "G", "A", "L", "O", "R", "E">>)
  \/ Contains(upper(name), <<"R", "A", "N", "E", "B", "E", "N", "N", "U", "R">>)

\* a variant of ResolveGmIndex that looks for "GM" in every row, resolved
\* or not
ResolveGmIndexEveryRow(index, headers) ==
  IF \E j \in DOMAIN headers : headers[j] = Str(<<"G", "M">>)
  THEN (CHOOSE j \in DOMAIN headers :
          /\ headers[j] = Str(<<"G", "M">>)
          /\ \A m \in 1..(j - 1) : headers[m] # Str(<<"G", "M">>)) - 1
  ELSE index

\* lines 178-182: the index (from 0) of the first cell equal to "GM", else
\* the index stays as it is
ResolveGmIndex(index, headers) ==
  IF index = -1 /\ \E j \in DOMAIN headers : headers[j] = Str(<<"G", "M">>)
  THEN (CHOOSE j \in DOMAIN headers :
          /\ headers[j] = Str(<<"G", "M">>)
          /\ \A m \in 1..(j - 1) : headers[m] # Str(<<"G", "M">>)) - 1
  ELSE index

\* line 194
CourseMatches(course, branch_name) ==
  startswith(strip(branch_name), course.CODE \o <<" ">>)

\* line 195: f"{course_code} [{course_name}]"
CourseLabel(course) == course.CODE \o <<" ", "[">> \o course.DETAIL \o <<"]">>

\* a variant of MatchCourse without the break: the last match wins
RECURSIVE MatchCourseLast(_, _)
MatchCourseLast(courses, branch_name) ==
  IF courses = <<>> THEN <<>>
  ELSE IF CourseMatches(courses[Len(courses)], branch_name)
  THEN CourseLabel(courses[Len(courses)])
  ELSE MatchCourseLast(SubSeq(courses, 1, Len(courses) - 1), branch_name)

\* lines 190-199: the label of the first course of the list that matches,
\* <<>> when none does (interested_course stays False)
RECURSIVE MatchCourse(_, _)
MatchCourse(courses, branch_name) ==
  IF courses = <<>> THEN <<>>
  ELSE IF CourseMatches(Head(courses), branch_name) THEN CourseLabel(Head(courses))
  ELSE MatchCourse(Tail(courses), branch_name)

\* lines 186-210: the records the iteration appends, given the row after the
\* current one
BranchRecords(branch_row, index, code, name) ==
  LET branch_name == branch_row[1]
      label == MatchCourse(course_data, branch_name.s)
      gm_value == float(PyIndex(branch_row, index))
  IN IF branch_name.t # "str" \/ label = <<>> THEN <<>>
     ELSE IF gm_value = ValueError \/ isnan(gm_value) THEN <<>>
     ELSE << [code |-> code, name |-> name, label |-> label, value |-> gm_value] >>

InitKcet ==
  /\ script = "kcet"
  /\ pc = "rows"
  /\ sheets_read = <<>>
  /\ all_processed_data = <<>>
  /\ merged_final_df = None
  /\ \E wb \in Workbooks : df = Head(wb) /\ excel_data = Tail(wb)
  /\ i = 0
  /\ college_code = <<>>
  /\ college_name = <<>>
  /\ gm_index = -1
  /\ data = <<>>
  /\ read_from = <<>>
  /\ all_data = <<>>
  /\ final_df = [columns |-> <<>>, rows |-> <<>>]

\* line 145-147: the first cell of the row is a string the pattern matches
IsHeaderRow(row) == row[1].t = "str" /\ HeaderMatch(row[1].s)

\* lines 145-152: the code and the name of the section after the row
NextCollegeCode(row, code) ==
  IF IsHeaderRow(row) THEN HeaderCode(row[1].s) ELSE code

\* a variant of NextCollegeName that tests the college name before the
\* header pattern: a rejected section is never left
NextCollegeNameUnlessSkipped(row, name) ==
  IF IsHeaderRow(row) /\ ~(name # <<>> /\ SkipCollege(name))
  THEN HeaderName(row[1].s) ELSE name

NextCollegeName(row, name) ==
  IF IsHeaderRow(row) THEN HeaderName(row[1].s) ELSE name

\* lines 141-210: one iteration of the loop over the rows of the sheet
ScanRow ==
  /\ script = "kcet"
  /\ pc = "rows"
  /\ i < Len(df)
  /\ LET row == df[i + 1]
         is_header == IsHeaderRow(row)
         in_section == college_code # <<>> /\ college_name # <<>>
         processed == ~is_header /\ in_section /\ ~SkipCollege(college_name)
         index == ResolveGmIndex(gm_index, row)
         records == IF processed /\ i + 1 < Len(df)
                    THEN BranchRecords(df[i + 2], index, college_code, college_name)
                    ELSE <<>>
     IN /\ college_code' = NextCollegeCode(row, college_code)
        /\ college_name' = NextCollegeName(row, college_name)
        /\ gm_index' = IF is_header THEN -1 ELSE IF processed THEN index ELSE gm_index
        /\ data' = data \o records
        /\ read_from' = read_from \o [k \in DOMAIN records |->
                                        [row |-> i + 1, gm_index |-> index]]
  /\ i' = i + 1
  /\ UNCHANGED <<script, pc, df, excel_data, all_data, final_df, comedk_vars>>

\* ---- create_dataframe_from_list ----

\* the characters in the order of their code points
CharOrder == <<" ", "+", "-">> \o Digits \o Uppercase \o <<"[", "]">> \o Lowercase

\* a < b for Python strings
RECURSIVE StrLess(_, _)
StrLess(a, b) ==
  IF b = <<>> THEN FALSE
  ELSE IF a = <<>> THEN TRUE
  ELSE IF Head(a) = Head(b) THEN StrLess(Tail(a), Tail(b))
  ELSE IndexIn(CharOrder, Head(a)) < IndexIn(CharOrder, Head(b))

\* line 105: sorted(college_row_branches.items()), the keys
RECURSIVE SortLabels(_)
SortLabels(S) ==
  IF S = {} THEN <<>>
  ELSE LET m == CHOOSE a \in S : \A b \in S \ {a} : StrLess(a, b)
       IN <<m>> \o SortLabels(S \ {m})

\* a variant of BranchValue that keeps the first value written
BranchValueFirst(college_data, label) ==
  college_data[CHOOSE k \in DOMAIN college_data :
                 /\ college_data[k].label = label
                 /\ \A m \in 1..(k - 1) : college_data[m].label # label].value

\* lines 99-103: college_row_branches[key] = value, the last write stays
BranchValue(college_data, label) ==
  college_data[CHOOSE k \in DOMAIN college_data :
                 /\ college_data[k].label = label
                 /\ \A m \in (k + 1)..Len(college_data) : college_data[m].label # label].value

\* lines 91-106: the row of one college code: code and name of its first
\* record, then its branches sorted by label
CollegeRow(records, code) ==
  LET college_data == SelectSeq(records, LAMBDA r : r.code = code)
      first_item == college_data[1]
      labels == {college_data[k].label : k \in DOMAIN college_data}
  IN [code |-> first_item.code, name |-> first_item.name,
      labels |-> SortLabels(labels),
      values |-> [l \in labels |-> BranchValue(college_data, l)]]

\* line 111: pd.DataFrame(final_data): the columns are the keys of the rows
\* in the order in which they first appear
RECURSIVE FrameColumns(_)
FrameColumns(final_data) ==
  IF final_data = <<>> THEN <<>>
  ELSE LET before == FrameColumns(SubSeq(final_data, 1, Len(final_data) - 1))
           row == final_data[Len(final_data)]
       IN before \o SelectSeq(row.labels, LAMBDA l : l \notin Range(before))

\* the orders in which `for code in college_codes` can run over the set
CodeOrders(records) ==
  LET college_codes == {records[k].code : k \in DOMAIN records}
  IN {order \in [1..Cardinality(college_codes) -> college_codes] : IsUnique(order)}

\* lines 64-112: the table of the records, with the college codes taken in
\* the given order; a cell no record gives is NaN.  The columns are
\* 'College Code' and 'College Name' (the fields code and name of a row)
\* followed by `columns`.
create_dataframe_from_list(records, order) ==
  IF records = <<>> THEN [columns |-> <<>>, rows |-> <<>>]
  ELSE LET final_data == [k \in DOMAIN order |-> CollegeRow(records, order[k])]
           columns == FrameColumns(final_data)
       IN [columns |-> columns,
           rows |-> [k \in DOMAIN final_data |->
                       [code |-> final_data[k].code, name |-> final_data[k].name,
                        cells |-> [c \in Range(columns) |->
                                     IF c \in DOMAIN final_data[k].values
                                     THEN final_data[k].values[c] ELSE NaN]]]]

\* lines 132-139 and 214: a sheet has ended and another follows: its records
\* go to all_data and the scan starts again on the next sheet
NextSheet ==
  /\ script = "kcet"
  /\ pc = "rows"
  /\ i = Len(df)
  /\ excel_data # <<>>
  /\ all_data' = all_data \o data
  /\ df' = Head(excel_data)
  /\ excel_data' = Tail(excel_data)
  /\ i' = 0
  /\ college_code' = <<>>
  /\ college_name' = <<>>
  /\ gm_index' = -1
  /\ data' = <<>>
  /\ read_from' = <<>>
  /\ UNCHANGED <<script, pc, final_df, comedk_vars>>

\* lines 214-220: the last sheet has ended: its records go to all_data and
\* the table is built
EndOfSheet ==
  /\ script = "kcet"
  /\ pc = "rows"
  /\ i = Len(df)
  /\ excel_data = <<>>
  /\ all_data' = all_data \o data
  /\ \E order \in CodeOrders(all_data \o data) :
       final_df' = create_dataframe_from_list(all_data \o data, order)
  /\ pc' = "done"
  /\ UNCHANGED <<script, df, i, college_code, college_name, gm_index, data,
                 read_from, excel_data, comedk_vars>>

NextKcet == ScanRow \/ NextSheet \/ EndOfSheet

SpecKcet == InitKcet /\ [][NextKcet]_vars

Init == InitComedk \/ InitKcet

Next == ReadSheet \/ process_comedk_data \/ ScanRow \/ NextSheet \/ EndOfSheet

Spec == Init /\ [][Next]_vars

(***************************************************************************)
(*                        Properties: the COMEDK merge                     *)
(***************************************************************************)

\* the per-source tables of the run, in merge order
Sources == all_processed_data

Merged == pc = "done" /\ script = "comedk"

\* the values program `label` has at institution `key` in table t
CellValues(t, key, label) ==
  IF <<label>> \in Range(t.columns)
  THEN {r.cells[<<label>>] : r \in {q \in Range(t.rows) : KeyOf(q) = key}} \ {NA}
  ELSE {}

HasValue(t, key, label) == CellValues(t, key, label) # {}

SourceKeys == UNION {{KeyOf(r) : r \in Range(Sources[n].rows)} : n \in DOMAIN Sources}

SourceLabels ==
  UNION {{c[1] : c \in Range(Sources[n].columns)} : n \in DOMAIN Sources}

\* the reconciled cell label@key holds one of the values of source n
ReconciledFrom(n, key, label) ==
  /\ merged_final_df.ok
  /\ <<label>> \in Range(merged_final_df.columns)
  /\ \E r \in Range(merged_final_df.rows) : KeyOf(r) = key
  /\ \A r \in Range(merged_final_df.rows) :
       KeyOf(r) = key => r.cells[<<label>>] \in CellValues(Sources[n], key, label)

UniqueKeys(t) == IsUnique([k \in DOMAIN t.rows |-> KeyOf(t.rows[k])])

UniqueCodes(t) == IsUnique([k \in DOMAIN t.rows |-> t.rows[k].code])

\* C1: later source wins.  After the merge of N >= 2 sources, a cell that has
\* a value in more than one source holds the value of the latest source that
\* has one (for N = 3, the value of the third source).
C1_LaterSourceWins ==
  (Merged /\ Len(Sources) >= 2) =>
    \A key \in SourceKeys, label \in SourceLabels :
      LET with == {n \in DOMAIN Sources : HasValue(Sources[n], key, label)}
      IN Cardinality(with) > 1 =>
           ReconciledFrom(CHOOSE n \in with : \A m \in with : m <= n, key, label)

\* C2: gap filling.  A cell that has a value in an earlier source and is
\* absent (missing cell, missing row or missing column) in every later source
\* holds that earlier value after the merge.
C2_GapFilling ==
  Merged =>
    \A key \in SourceKeys, label \in SourceLabels :
      \A n \in DOMAIN Sources :
        ( /\ n < Len(Sources)
          /\ HasValue(Sources[n], key, label)
          /\ \A m \in (n + 1)..Len(Sources) : ~HasValue(Sources[m], key, label) )
        => ReconciledFrom(n, key, label)

\* the merge of a table with an identical copy gives the table back: the same
\* columns in the same order, the same number of rows, the same rows
SameTable(result, A) ==
  /\ result.ok
  /\ result.columns = A.columns
  /\ Len(result.rows) = Len(A.rows)
  /\ Range(result.rows) = Range(A.rows)

\* C3 as stated: merging any table A with an identical copy yields A, also
\* when A has several rows with the same institution key.
C3_MergeIdempotent_AnyTable ==
  (Merged /\ Len(Sources) = 2 /\ Sources[1] = Sources[2]) =>
    SameTable(merged_final_df, Sources[1])

\* C3 as amended: merging a table A that has at most one row per institution
\* key with an identical copy yields A (same columns in the same order, same
\* row count, same rows with the same cell values).
C3_MergeIdempotent ==
  (Merged /\ Len(Sources) = 2 /\ Sources[1] = Sources[2] /\ UniqueKeys(Sources[1])) =>
    SameTable(merged_final_df, Sources[1])

\* a table of two columns and two institutions was merged with its copy
C3_Witness ==
  /\ Merged
  /\ Len(Sources) = 2
  /\ Sources[1] = Sources[2]
  /\ UniqueKeys(Sources[1])
  /\ Len(Sources[1].rows) = 2
  /\ Len(Sources[1].columns) = 2
  /\ SameTable(merged_final_df, Sources[1])

\* C8: after the merge of N >= 1 sources every program label of an input is
\* exactly one column of the result and no suffixed column is left, also when
\* a label occurs in three, four or more sources.
C8_OneColumnPerLabel ==
  (Merged /\ Len(Sources) >= 1) =>
    /\ merged_final_df.ok
    /\ IsUnique(merged_final_df.columns)
    /\ Range(merged_final_df.columns) = {<<label>> : label \in SourceLabels}

\* C9: when every input has at most one row per institution code, the result
\* has exactly one row per institution code of any input, also when a code
\* has different names in different sources.
C9_OneRowPerCode ==
  (Merged /\ Len(Sources) >= 1 /\ \A n \in DOMAIN Sources : UniqueCodes(Sources[n])) =>
    /\ merged_final_df.ok
    /\ UniqueCodes(merged_final_df)
    /\ {r.code : r \in Range(merged_final_df.rows)} = {key[1] : key \in SourceKeys}

\* the sheets read that have the base columns, in the order read
UsableSheets == SelectSeq(sheets_read, LAMBDA name : HasBaseColumns(xl[name]))

\* C10: a sheet without a base column is skipped; the result is the merge of
\* the other sheets in their order, and no table is returned only when no
\* sheet was usable.
C10_SchemaFailureTolerated ==
  Merged =>
    /\ merged_final_df =
         MergeResult([k \in DOMAIN UsableSheets |->
                        Table(AlignSheet(xl[UsableSheets[k]]).columns,
                              AlignSheet(xl[UsableSheets[k]]).rows)])
    /\ merged_final_df = None => UsableSheets = <<>>

(***************************************************************************)
(*                        Properties: the KCET scanner                     *)
(***************************************************************************)

\* C4: every record appended carries a finite number that is not NaN.
C4_RecordValuesFinite ==
  \A k \in DOMAIN data : data[k].value.k = "fin"

\* C5: no record is appended while the cutoff column index of the section is
\* unresolved (gm_index = -1).
C5_NoRecordWhileUnresolved ==
  \A k \in DOMAIN read_from : read_from[k].gm_index # -1

AllowTokens == { <<"B", "A", "N">>, <<"B", "E", "N">> }

DenyTokens ==
  { <<"K", "A", "L", "B", "U", "R", "G", "I">>,
    <<"B", "A", "N", "T", "W", "A", "L">>,
    <<"B", "A", "N", "G", "A", "R", "A", "P", "E", "T">>,
    <<"M", "A", "N", "G", "A", "L", "O", "R", "E">>,
    <<"R", "A", "N", "E", "B", "E", "N", "N", "U", "R">> }

\* the inclusion policy: an allow token and no deny token in the upper-cased name
PolicyIncluded(name) ==
  /\ \E t \in AllowTokens : Contains(upper(name), t)
  /\ \A t \in DenyTokens : ~Contains(upper(name), t)

InSection == college_code # <<>> /\ college_name # <<>>

\* C6: the rows of a section are processed (its cutoff column resolved, its
\* records appended) only if the institution name passes the inclusion
\* policy; the decision of the scanner is the policy's, whatever the letter
\* case of the name.
C6_InclusionPolicy ==
  /\ \A k \in DOMAIN data : PolicyIncluded(data[k].name)
  /\ gm_index # -1 => PolicyIncluded(college_name)
  /\ InSection =>
       /\ SkipCollege(college_name) = ~PolicyIncluded(college_name)
       /\ SkipCollege(upper(college_name)) = SkipCollege(college_name)
       /\ SkipCollege(lower(college_name)) = SkipCollege(college_name)

\* the sheet ended in a section whose name has an allow and a deny token in
\* mixed case, after a column header row and a program row of it were
\* scanned, and the section gave no record
C6_Witness ==
  /\ script = "kcet"
  /\ pc = "done"
  /\ Len(df) = 6
  /\ \E t \in AllowTokens : Contains(upper(college_name), t)
  /\ \E t \in DenyTokens : Contains(upper(college_name), t) /\ ~Contains(college_name, t)
  /\ gm_index = -1
  /\ Len(data) = 1
  /\ read_from[1].row = 2

\* the interested courses of the catalog that match a program cell
MatchingCourses(text) ==
  {c \in DOMAIN course_file :
     /\ course_file[c].INTERESTED = "Y"
     /\ startswith(strip(text), course_file[c].CODE \o <<" ">>)}

\* C7: a record is read from a row whose first cell is a string that an
\* interested course matches, and its label is "{code} [{displayName}]" of
\* the first matching interested course in catalog order.
C7_FirstMatchingCourse ==
  \A k \in DOMAIN data :
    LET cell == df[read_from[k].row + 1][1]
        first == CHOOSE c \in MatchingCourses(cell.s) :
                   \A d \in MatchingCourses(cell.s) : c <= d
    IN /\ cell.t = "str"
       /\ MatchingCourses(cell.s) # {}
       /\ data[k].label = course_file[first].CODE \o <<" ", "[">>
                            \o course_file[first].DETAIL \o <<"]">>

\* a record was read from a row that two interested courses match, and a
\* row that only a course of no interest matches gave none
C7_Witness ==
  /\ \E k \in DOMAIN data :
       Cardinality(MatchingCourses(df[read_from[k].row + 1][1].s)) = 2
  /\ pc = "done"
  /\ \E m \in DOMAIN df :
       /\ df[m][1] = Str(<<"M", " ", "q">>)
       /\ \A k \in DOMAIN read_from : read_from[k].row + 1 # m
       /\ m > 1 /\ \E k \in DOMAIN read_from : read_from[k].row + 1 > m


\* the index of the last institution header row of a sheet before row r,
\* 0 when there is none
LastHeaderBefore(sheet, r) ==
  LET H == {h \in 1..(r - 1) : h <= Len(sheet) /\ IsHeaderRow(sheet[h])}
  IN IF H = {} THEN 0 ELSE CHOOSE h \in H : \A g \in H : g <= h

\* C11: an institution header row only starts a section and never yields a
\* record: every record is read from a row that is not an institution header
\* row, and it carries the code and the name of the most recent header row
\* before the row it was read from.
C11_HeaderRowYieldsNoRecord ==
  \A k \in DOMAIN data :
    LET r == read_from[k].row + 1
        h == LastHeaderBefore(df, r)
    IN /\ ~IsHeaderRow(df[r])
       /\ h # 0
       /\ data[k].code = HeaderCode(df[h][1].s)
       /\ data[k].name = HeaderName(df[h][1].s)


\* the records the iteration on row r of the sheet appended
RecordsAt(r) ==
  LET K == {k \in DOMAIN data : read_from[k].row = r}
  IN [n \in 1..Cardinality(K) |->
        data[CHOOSE k \in K : Cardinality({m \in K : m <= k}) = n]]

\* C12: while the section is one whose name the inclusion policy rejects,
\* no iteration appends a record, up to the next institution header row; the
\* rejection is not remembered: the first row after a header row with an
\* accepted name is processed as in a sheet that starts with that header
\* row, whatever sections came before it, of the same code or of another.
C12_RejectionEndsAtNextHeader ==
  /\ \A k \in DOMAIN data :
       LET h == LastHeaderBefore(df, read_from[k].row)
       IN h # 0 /\ PolicyIncluded(HeaderName(df[h][1].s))
  /\ \A r \in 1..i :
       LET h == LastHeaderBefore(df, r)
       IN (h # 0 /\ ~IsHeaderRow(df[r])
             /\ ~PolicyIncluded(HeaderName(df[h][1].s))) => RecordsAt(r) = <<>>
  /\ \A h \in 1..(i - 1) :
       (/\ IsHeaderRow(df[h])
        /\ PolicyIncluded(HeaderName(df[h][1].s))
        /\ HeaderName(df[h][1].s) # <<>>
        /\ ~IsHeaderRow(df[h + 1])
        /\ h + 2 <= Len(df))
         => RecordsAt(h + 1) =
              BranchRecords(df[h + 2], ResolveGmIndex(-1, df[h + 1]),
                            HeaderCode(df[h][1].s), HeaderName(df[h][1].s))

\* the sheet ended after a section with a rejected name that gave no
\* record and a later section of the same code with an accepted name that
\* gave one
C12_Witness ==
  /\ script = "kcet"
  /\ pc = "done"
  /\ Len(df) = 6
  /\ IsHeaderRow(df[1]) /\ ~PolicyIncluded(HeaderName(df[1][1].s))
  /\ IsHeaderRow(df[4]) /\ PolicyIncluded(HeaderName(df[4][1].s))
  /\ HeaderCode(df[4][1].s) = HeaderCode(df[1][1].s)
  /\ RecordsAt(2) = <<>>
  /\ Len(data) = 1
  /\ read_from[1].row = 5
  /\ data[1].name = HeaderName(df[4][1].s)


\* the rows that have a cell equal to "GM"
HasGM(row) == \E j \in DOMAIN row : row[j] = Str(<<"G", "M">>)

\* the index, from 0, of the first cell of the row equal to "GM"
FirstGM(row) ==
  (CHOOSE j \in DOMAIN row : row[j] = Str(<<"G", "M">>)
                               /\ \A m \in 1..(j - 1) : row[m] # Str(<<"G", "M">>)) - 1

\* the cutoff column index after the first n rows of the sheet: unresolved
\* outside a section and in the section of a rejected name, else the index
\* of "GM" in the first row of the section that has one
CutoffIndexAfter(sheet, n) ==
  LET h == LastHeaderBefore(sheet, n + 1)
      R == {r \in (h + 1)..n : HasGM(sheet[r])}
  IN IF h = 0 THEN -1
     ELSE IF ~PolicyIncluded(HeaderName(sheet[h][1].s)) THEN -1
     ELSE IF R = {} THEN -1
     ELSE FirstGM(sheet[CHOOSE r \in R : \A q \in R : r <= q])

\* C13: the cutoff column index is resolved at most once in a section: it
\* is unresolved at the start of every sheet and after every institution
\* header row, it is the index of the first "GM" cell of the first row of
\* an included section that has one, and no later row of the section
\* changes it, a row with "GM" at another index included.
C13_CutoffIndexResolvedOnce ==
  script = "kcet" =>
    /\ gm_index = CutoffIndexAfter(df, i)
    /\ \A k \in DOMAIN data :
         read_from[k].gm_index = CutoffIndexAfter(df, read_from[k].row)

\* in an included section a row with "GM" at index 2 followed one with
\* "GM" at index 1, the index stayed 1 and the record after it was read
\* there
C13_Witness ==
  /\ script = "kcet"
  /\ Len(df) = 4
  /\ i = 4
  /\ IsHeaderRow(df[1])
  /\ FirstGM(df[2]) = 1 /\ HasGM(df[2])
  /\ FirstGM(df[3]) = 2 /\ HasGM(df[3])
  /\ gm_index = 1
  /\ \E k \in DOMAIN data : read_from[k].row = 3 /\ read_from[k].gm_index = 1

\* a second sheet has started after a sheet that ended with a resolved
\* index
C13_WitnessSheetStart ==
  /\ script = "kcet"
  /\ all_data # <<>>
  /\ i = 0
  /\ gm_index = -1


\* the positions in all_data of the records of a code, and of a code and a
\* label
RecordsOfCode(code) == {k \in DOMAIN all_data : all_data[k].code = code}
RecordsOfLabel(code, label) == {k \in RecordsOfCode(code) : all_data[k].label = label}

\* C14: the table made of the records has exactly one row for each distinct
\* institution code; the row has the institution name of the first record
\* of that code, for every program label the value of the last record of
\* that code and label, and no value (NaN) for a label that no record of
\* that code has.
C14_FoldByCode ==
  (script = "kcet" /\ pc = "done") =>
    LET codes == {all_data[k].code : k \in DOMAIN all_data}
        labels == {all_data[k].label : k \in DOMAIN all_data}
        rows == final_df.rows
    IN /\ Len(rows) = Cardinality(codes)
       /\ \A c \in codes : \E n \in DOMAIN rows : rows[n].code = c
       /\ Range(final_df.columns) = labels
       /\ \A n \in DOMAIN rows :
            LET K == RecordsOfCode(rows[n].code)
            IN /\ K # {}
               /\ rows[n].name = all_data[CHOOSE k \in K : \A m \in K : k <= m].name
               /\ DOMAIN rows[n].cells = labels
               /\ \A l \in labels :
                    LET KL == RecordsOfLabel(rows[n].code, l)
                    IN rows[n].cells[l] =
                         IF KL = {} THEN NaN
                         ELSE all_data[CHOOSE k \in KL : \A m \in KL : m <= k].value

\* the table was made of records of one code under two names, with two
\* values for one label, and of a record of another code with another label
C14_Witness ==
  /\ script = "kcet"
  /\ pc = "done"
  /\ \E k1, k2 \in DOMAIN all_data :
       /\ k1 < k2
       /\ all_data[k1].code = all_data[k2].code
       /\ all_data[k1].label = all_data[k2].label
       /\ all_data[k1].name # all_data[k2].name
       /\ all_data[k1].value # all_data[k2].value
  /\ Len(final_df.rows) = 1
  /\ final_df.rows[1].name = all_data[1].name


\* C15: after the two base key columns, the columns of the table made of
\* the records are all the program labels in lexicographically ascending
\* order, also when the institutions have different sets of labels.
C15_ColumnsSorted ==
  (script = "kcet" /\ pc = "done") =>
    final_df.columns = SortLabels({all_data[k].label : k \in DOMAIN all_data})


\* the program labels of the sources in the order in which the merge
\* sequence first meets them
RECURSIVE FirstSeenLabels(_)
FirstSeenLabels(tables) ==
  IF tables = <<>> THEN <<>>
  ELSE LET before == FirstSeenLabels(SubSeq(tables, 1, Len(tables) - 1))
           last == tables[Len(tables)].columns
       IN before \o SelectSeq([k \in DOMAIN last |-> last[k][1]],
                              LAMBDA l : l \notin Range(before))

\* C16: after the base key columns, the columns of the reconciled table are
\* the program labels in first-seen order over the merge sequence: a label
\* of an earlier source comes before every label that a later source
\* brings in, and the labels of one source keep their order, whether or not
\* they are in several sources.
C16_FirstSeenColumnOrder ==
  (Merged /\ merged_final_df.ok) =>
    merged_final_df.columns =
      [k \in DOMAIN FirstSeenLabels(Sources) |-> <<FirstSeenLabels(Sources)[k]>>]

====
